---- MODULE Spec2Model ----
(***************************************************************************)
(* The inference service of api/main.py: the process-wide model cache      *)
(* (_cached_model, _cached_model_name), the /predict and /predict/batch    *)
(* handlers, and the background persistence task save_prediction_to_db.    *)
(*                                                                         *)
(* The handlers are coroutines (async def) that never await: load_model    *)
(* and model.predict are plain synchronous calls.  A handler therefore     *)
(* holds the event loop of the (single) server process from its first      *)
(* statement to its return, and no other handler runs in between.  The     *)
(* handler on the loop is `cur`; it is split at the registry fetch so      *)
(* that the state "a load is in progress" is visible.  The persistence     *)
(* task is a plain function, which the framework runs on a worker thread   *)
(* after the response, concurrently with the loop.                         *)
(*                                                                         *)
(* The training side is src/data_preprocessing.py: a DataPreprocessor      *)
(* object with its fitted encoder and scaler, and the table functions      *)
(* clean_heart_disease_data, remove_outliers and balance_classes.  Each    *)
(* part has its own specification over the same variables: Spec (the       *)
(* service on validated requests), SpecBoundary (request validation in     *)
(* front of the handlers), SpecPipe (encoder and scaler), SpecClean,       *)
(* SpecOutliers and SpecBalance (the table functions), SpecPrepare         *)
(* (prepare_data).  SpecTrainer is ModelTrainer.get_model of               *)
(* src/model_training.py, SpecEval the ModelEvaluator of                   *)
(* src/model_evaluation.py with its metrics_history, and SpecIngest the    *)
(* /ingest/stream handler of api/main.py.                                  *)
(***************************************************************************)
EXTENDS Integers, Sequences, FiniteSets, TLC

\* ------------------------------------------------------------------ bounds
MaxVersion == 2
MaxBatch == 2
MaxTasks == 1
MaxRows == 2
MaxOutlierRows == 4
MaxCount == 8
MaxHistory == 2

\* --------------------------------------------------------------- constants
\* settings.DEFAULT_MODEL
DEFAULT_MODEL == "random_forest"
\* status_code of the HTTPException load_model raises
NotFoundStatus == 404
\* status_code of the HTTPException the handlers' except clause raises
ErrorStatus == 500

\* Python's None as a model_name; "" is the empty string, a different value.
NoneName == "<None>"
\* Names under which the registry may hold versions.  A registered model
\* name is never empty, and the URI "models://latest" built for "" names
\* no model.
RegNames == {"random_forest", "knn"}
\* The model_name values a request may carry.
ReqNames == {NoneName, ""} \cup RegNames
\* Valid PatientData values, abstracted to two distinct records.
Patients == {1, 2}

\* PatientData: the declared bounds <<ge, le>> of its fields, every one of
\* them required (Field(...)).  oldpeak, a float, is held in whole units.
FieldBounds ==
    [age |-> <<18, 100>>, sex |-> <<0, 1>>, chest_pain_type |-> <<1, 4>>,
     resting_bp |-> <<60, 260>>, cholesterol |-> <<70, 900>>,
     fasting_bs |-> <<0, 1>>, resting_ecg |-> <<0, 2>>, max_hr |-> <<30, 260>>,
     exercise_angina |-> <<0, 1>>, oldpeak |-> <<-3, 7>>, st_slope |-> <<0, 3>>]

\* The example record of PatientData.
ExampleBody ==
    [age |-> 54, sex |-> 1, chest_pain_type |-> 3, resting_bp |-> 150,
     cholesterol |-> 195, fasting_bs |-> 0, resting_ecg |-> 0, max_hr |-> 122,
     exercise_angina |-> 0, oldpeak |-> 0, st_slope |-> 1]

\* The JSON objects a request may carry as a patient, by number: the two
\* valid records of Patients (the example, and one lying on bounds), records
\* with one field outside its bounds, and one without its st_slope key.
RequestBodies ==
    [p \in 1..6 |->
        CASE p = 1 -> ExampleBody
          [] p = 2 -> [ExampleBody EXCEPT !.age = 100, !.oldpeak = -3, !.chest_pain_type = 1]
          [] p = 3 -> [ExampleBody EXCEPT !.age = 17]
          [] p = 4 -> [ExampleBody EXCEPT !.chest_pain_type = 5]
          [] p = 5 -> [ExampleBody EXCEPT !.oldpeak = 8]
          [] p = 6 -> [f \in (DOMAIN ExampleBody) \ {"st_slope"} |-> ExampleBody[f]]]

\* Validation of one object against PatientData: every field present and
\* within its bounds.
ValidPatient(body) ==
    \A f \in DOMAIN FieldBounds :
        /\ f \in DOMAIN body
        /\ body[f] >= FieldBounds[f][1]
        /\ body[f] <= FieldBounds[f][2]

\* The objects that pass it.
ValidBodies == {p \in DOMAIN RequestBodies : ValidPatient(RequestBodies[p])}

\* Mutant: of a list only the first object is validated.
MutValidFirstOnly(patients) ==
    IF patients = <<>> THEN TRUE ELSE patients[1] \in ValidBodies

\* Validation of the body of a request before the handler is called:
\* "patient: PatientData", "patients: list[PatientData]".
ValidRequest(patients) ==
    \A i \in 1..Len(patients) : patients[i] \in ValidBodies

\* The framework's answer to a body that fails validation.
ValidationError == [type |-> "RequestValidationError", status_code |-> 422]

\* _cached_model = None
NoModel == [name |-> NoneName, version |-> 0]

\* What a try block of a handler may raise: nothing, load_model's
\* HTTPException(status_code=404), or an exception of model.predict.
NoException == [type |-> "none", status_code |-> 0]
ModelNotFound == [type |-> "HTTPException", status_code |-> NotFoundStatus]
PredictError == [type |-> "Exception", status_code |-> 0]

VARIABLES
    registry,      \* name -> latest registered version (0: none)
    cachedModel,   \* _cached_model
    cachedName,    \* _cached_model_name
    cur,           \* the handler holding the event loop, then its response
    tasks,         \* persistence tasks handed to the worker threads
    lastSave,      \* what the last run of save_prediction_to_db did
    encoder,       \* DataPreprocessor.encoder
    scaler,        \* DataPreprocessor.scaler
    call,          \* the last call on the preprocessor, trainer, evaluator
                   \* or ingest handler: its arguments, what the attribute
                   \* it works on held before, and its result
    metrics_history \* ModelEvaluator.metrics_history

vars == <<registry, cachedModel, cachedName, cur, tasks, lastSave, encoder, scaler, call,
          metrics_history>>
pipeVars == <<encoder, scaler, call>>
serveVars == <<registry, cachedModel, cachedName, cur, tasks, lastSave>>
evalVars == <<metrics_history>>

\* Python's None as the value of an attribute that holds an object.
None == [kind |-> "None", fitted |-> FALSE]
\* No call on the preprocessor yet.
NoCall == [op |-> "none"]

\* ---------------------------------------------------------------- helpers
RECURSIVE SeqsUpTo(_, _)
SeqsUpTo(S, n) ==
    IF n = 0 THEN {<<>>}
    ELSE LET shorter == SeqsUpTo(S, n - 1)
         IN  shorter \cup {Append(s, x) : s \in {t \in shorter : Len(t) = n - 1}, x \in S}

\* BatchPredictionRequest.patients: a list of valid patients.
BatchInputs == SeqsUpTo(Patients, MaxBatch)

\* The lists of objects a batch request may carry, valid or not.
RawBatchInputs == SeqsUpTo(DOMAIN RequestBodies, MaxBatch)

\* The estimator behind a handle: model.predict(patient_df)[0] and
\* model.predict_proba(patient_df)[0][1] (in percent), deterministic in the
\* handle and the patient.  The estimators registered under a name alternate
\* between ones with predict_proba (odd versions) and ones without.
ModelPredict(m, p) == (p + m.version) % 2
ModelProba(m, p) == IF ModelPredict(m, p) = 1 THEN 85 ELSE 15
HasProba(m) == m.version % 2 = 1

\* Mutant: the probability is reported in percent of the unit the estimator
\* uses.
MutProbabilityTimes100(m, p) ==
    IF HasProba(m) THEN 100 * ModelProba(m, p) ELSE 100 * 100 * ModelPredict(m, p)

\* the handlers: "if hasattr(model, 'predict_proba') ... else float(prediction)"
Probability(m, p) == IF HasProba(m) THEN ModelProba(m, p) ELSE 100 * ModelPredict(m, p)

\* PredictionResponse(prediction, probability, model_name, model_version="1")
PredictionOf(m, reported, p) ==
    [prediction |-> ModelPredict(m, p), probability |-> Probability(m, p),
     model_name |-> reported, model_version |-> "1"]

\* load_model: model_name = settings.DEFAULT_MODEL when it is None
Resolve(name) == IF name = NoneName THEN DEFAULT_MODEL ELSE name

\* Mutant: the requested name is reported as it came.
MutReportNameRaw(name) == name

\* the handlers: model_name = model_name or settings.DEFAULT_MODEL
ReportName(name) == IF name = NoneName \/ name = "" THEN DEFAULT_MODEL ELSE name

\* Mutants of the cache test: the name is not compared; the cached version is
\* compared with the registry's latest.
MutCacheHitAnyName(resolved) == cachedModel # NoModel
MutCacheHitFresh(resolved) ==
    /\ cachedModel # NoModel
    /\ cachedName = resolved
    /\ cachedModel.version = registry[cachedModel.name]

\* load_model: "_cached_model is not None and _cached_model_name == model_name"
CacheHit(resolved) == cachedModel # NoModel /\ cachedName = resolved

\* MLFlowClient.load_model: the handle of the latest version, or None on any
\* exception (no such model, registry unreachable).
RegistryLoad(resolved) ==
    {NoModel} \cup
    (IF resolved \in RegNames /\ registry[resolved] > 0
     THEN {[name |-> resolved, version |-> registry[resolved]]}
     ELSE {})

\* The handler position before any request.
Idle ==
    [pc |-> "idle", kind |-> "none", name |-> NoneName, patients |-> <<>>,
     hit |-> FALSE, model |-> NoModel, raised |-> NoException, failedAt |-> 0,
     status |-> 0, detail |-> <<>>, predictions |-> <<>>, total |-> 0,
     background |-> <<>>]

LoopFree == cur.pc \in {"idle", "done"}

\* The service before any request.
ServeInit ==
    /\ registry = [n \in RegNames |-> 0]
    /\ cachedModel = NoModel
    /\ cachedName = NoneName
    /\ cur = Idle
    /\ tasks = <<>>
    /\ lastSave = [failed |-> FALSE, result |-> "none", written |-> FALSE]

Init ==
    /\ ServeInit
    /\ encoder = None
    /\ scaler = None
    /\ metrics_history = <<>>
    /\ call = NoCall

\* A new version is registered under a name and becomes its latest.
Register(n) ==
    /\ registry[n] < MaxVersion
    /\ registry' = [registry EXCEPT ![n] = @ + 1]
    /\ UNCHANGED <<cachedModel, cachedName, cur, tasks, lastSave, pipeVars, evalVars>>

\* The loop dispatches a request to its handler, which runs load_model up to
\* the cache test.
Begin(kind, name, patients) ==
    /\ LoopFree
    /\ Len(tasks) < MaxTasks
    /\ LET base == [Idle EXCEPT !.kind = kind, !.name = name, !.patients = patients]
       IN  cur' = IF CacheHit(Resolve(name))
                  THEN [base EXCEPT !.pc = "scoring", !.hit = TRUE, !.model = cachedModel]
                  ELSE [base EXCEPT !.pc = "loading"]
    /\ UNCHANGED <<registry, cachedModel, cachedName, tasks, lastSave, pipeVars, evalVars>>

\* Mutant: the globals are assigned before the None test.
MutCacheAfterLoadEager(m, resolved) == <<m, resolved>>

\* load_model after the fetch: "if model is None: raise" comes before the
\* cache update, so a failed load leaves both globals as they were.
CacheAfterLoad(m, resolved) ==
    IF m = NoModel THEN <<cachedModel, cachedName>> ELSE <<m, resolved>>

\* The handlers' "except Exception as e: raise HTTPException(500, ...)": every
\* exception of the try block, the HTTPException of load_model included,
\* leaves as status 500, its own status code dropped and its text put in the
\* detail.
HandlerExcept(c, exc, at) ==
    [c EXCEPT !.pc = "done", !.raised = exc, !.failedAt = at,
              !.status = ErrorStatus,
              !.detail = <<IF c.kind = "predict" THEN "Erro na predicao"
                           ELSE "Erro na predicao em lote", exc.type>>]

\* The registry answers the fetch of load_model.
FinishLoad ==
    /\ cur.pc = "loading"
    /\ \E m \in RegistryLoad(Resolve(cur.name)) :
         LET after == CacheAfterLoad(m, Resolve(cur.name))
         IN  /\ cachedModel' = after[1]
             /\ cachedName' = after[2]
             /\ cur' = IF m = NoModel
                       THEN HandlerExcept(cur, ModelNotFound, 0)
                       ELSE [cur EXCEPT !.pc = "scoring", !.model = m]
    /\ UNCHANGED <<registry, tasks, lastSave, pipeVars, evalVars>>

\* Mutant: the task is never added.
MutAddTaskNone(background, task) == background

\* predict: "if background_tasks: background_tasks.add_task(...)"; the
\* framework always injects a BackgroundTasks object for the parameter.
AddTask(background, task) == Append(background, task)

\* predict after load_model: score the patient, build the response, schedule
\* the persistence task.  ok: model.predict returned (it may raise).
PredictBody(c, ok) ==
    IF ~ok THEN HandlerExcept(c, PredictError, 1)
    ELSE LET p == c.patients[1]
             r == PredictionOf(c.model, ReportName(c.name), p)
             task == [patient |-> p, prediction |-> r.prediction,
                      probability |-> r.probability, model_name |-> r.model_name]
         IN  [c EXCEPT !.pc = "done", !.status = 200, !.predictions = <<r>>,
                       !.background = AddTask(c.background, task)]

ScorePredict ==
    /\ cur.pc = "scoring"
    /\ cur.kind = "predict"
    /\ \E ok \in BOOLEAN :
         /\ cur' = PredictBody(cur, ok)
         /\ tasks' = tasks \o cur'.background
    /\ UNCHANGED <<registry, cachedModel, cachedName, lastSave, pipeVars, evalVars>>

\* Mutant: the result is put in front of the list.
MutBatchPrepend(predictions, r) == <<r>> \o predictions

\* predict_batch: predictions.append(PredictionResponse(...))
BatchAppend(predictions, r) == Append(predictions, r)

\* predict_batch's for loop from record i on; failAt is the record on which
\* model.predict raises (0: none).  The result is the predictions list, or
\* the index of the record whose exception left the loop.
RECURSIVE BatchLoop(_, _, _, _, _, _)
BatchLoop(m, reported, patients, i, failAt, predictions) ==
    IF i > Len(patients) THEN [raisedAt |-> 0, predictions |-> predictions]
    ELSE IF i = failAt THEN [raisedAt |-> i, predictions |-> predictions]
    ELSE BatchLoop(m, reported, patients, i + 1, failAt,
                   BatchAppend(predictions, PredictionOf(m, reported, patients[i])))

\* predict_batch after load_model: the loop, then BatchPredictionResponse, all
\* inside one try whose except turns any exception into status 500.
BatchBody(c, failAt) ==
    LET out == BatchLoop(c.model, ReportName(c.name), c.patients, 1, failAt, <<>>)
    IN  IF out.raisedAt # 0 THEN HandlerExcept(c, PredictError, out.raisedAt)
        ELSE [c EXCEPT !.pc = "done", !.status = 200,
                       !.predictions = out.predictions,
                       !.total = Len(out.predictions)]

ScoreBatch ==
    /\ cur.pc = "scoring"
    /\ cur.kind = "batch"
    /\ \E failAt \in 0..Len(cur.patients) : cur' = BatchBody(cur, failAt)
    /\ UNCHANGED <<registry, cachedModel, cachedName, tasks, lastSave, pipeVars, evalVars>>

\* What the database does during one run of the persistence task.
DbOutcomes == {"ok", "client_raises", "connect_raises", "execute_raises", "commit_raises"}

\* DatabaseClient.get_connection around one statement: connect, the body,
\* commit; an exception of the body or of commit is rolled back, logged and
\* raised again, one of connect leaves as it is.
GetConnection(o) ==
    [raises |-> o \in {"connect_raises", "execute_raises", "commit_raises"},
     committed |-> o = "ok"]

\* DatabaseClient.execute_insert (through insert_prediction): True when the
\* statement ran and was committed; "except Exception" returns False.
ExecuteInsert(o) ==
    IF GetConnection(o).raises THEN [raises |-> FALSE, value |-> FALSE]
    ELSE [raises |-> FALSE, value |-> GetConnection(o).committed]

\* Mutant: no try/except around the body of save_prediction_to_db.
MutSaveNoTry(o) ==
    IF o = "client_raises"
    THEN [failed |-> TRUE, result |-> "raised", written |-> FALSE]
    ELSE [failed |-> o # "ok", result |-> "returned", written |-> ExecuteInsert(o).value]

\* save_prediction_to_db: get_db_client() and db.insert_prediction(...) inside
\* "try ... except Exception" that only prints.
SavePredictionToDb(o) ==
    IF o = "client_raises" \/ ExecuteInsert(o).raises
    THEN [failed |-> TRUE, result |-> "returned", written |-> FALSE]
    ELSE [failed |-> o # "ok", result |-> "returned", written |-> ExecuteInsert(o).value]

\* A worker thread runs one scheduled persistence task.
RunTask(i, o) ==
    /\ i \in 1..Len(tasks)
    /\ tasks' = SubSeq(tasks, 1, i - 1) \o SubSeq(tasks, i + 1, Len(tasks))
    /\ lastSave' = SavePredictionToDb(o)
    /\ UNCHANGED <<registry, cachedModel, cachedName, cur, pipeVars, evalVars>>

Next ==
    \/ \E n \in RegNames : Register(n)
    \/ \E name \in ReqNames, p \in Patients : Begin("predict", name, <<p>>)
    \/ \E name \in ReqNames, ps \in BatchInputs : Begin("batch", name, ps)
    \/ FinishLoad
    \/ ScorePredict
    \/ ScoreBatch
    \/ \E i \in 1..MaxTasks, o \in DbOutcomes : RunTask(i, o)

Spec == Init /\ [][Next]_vars

\* --------------------------------------------- validation in front of it
\* The framework validates the body of a request against the parameter types
\* of the handler, and calls the handler when it passes.
Accept(kind, name, patients) ==
    /\ ValidRequest(patients)
    /\ Begin(kind, name, patients)

\* A request whose body fails validation is answered by the framework with
\* status 422; the handler is not called.
Reject(kind, name, patients) ==
    /\ LoopFree
    /\ ~ValidRequest(patients)
    /\ cur' = [Idle EXCEPT !.pc = "done", !.kind = kind, !.name = name,
                           !.patients = patients, !.raised = ValidationError,
                           !.status = ValidationError.status_code]
    /\ UNCHANGED <<registry, cachedModel, cachedName, tasks, lastSave, pipeVars, evalVars>>

\* The service for the default model and a database that works, with request
\* bodies of every kind.
NextBoundary ==
    \/ Register(DEFAULT_MODEL)
    \/ \E p \in DOMAIN RequestBodies : Accept("predict", NoneName, <<p>>)
    \/ \E ps \in RawBatchInputs : Accept("batch", NoneName, ps)
    \/ \E p \in DOMAIN RequestBodies : Reject("predict", NoneName, <<p>>)
    \/ \E ps \in RawBatchInputs : Reject("batch", NoneName, ps)
    \/ FinishLoad
    \/ ScorePredict
    \/ ScoreBatch
    \/ \E i \in 1..MaxTasks : RunTask(i, "ok")

SpecBoundary == Init /\ [][NextBoundary]_vars

\* ------------------------------------------------------- the preprocessor
Range(seq) == {seq[i] : i \in DOMAIN seq}

\* The position of a column in a frame that has it.
ColumnIndex(columns, c) == CHOOSE i \in DOMAIN columns : columns[i] = c

\* A set of numbers in ascending order.
RECURSIVE SortedSeq(_)
SortedSeq(S) ==
    IF S = {} THEN <<>>
    ELSE LET m == CHOOSE x \in S : \A y \in S : x <= y
         IN  <<m>> \o SortedSeq(S \ {m})

\* The concatenation of a sequence of sequences.
RECURSIVE Flatten(_)
Flatten(ss) == IF ss = <<>> THEN <<>> ELSE Head(ss) \o Flatten(Tail(ss))

\* patient.dict(): the fields of PatientData in the order of declaration.
PatientFields ==
    <<"age", "sex", "chest_pain_type", "resting_bp", "cholesterol", "fasting_bs",
      "resting_ecg", "max_hr", "exercise_angina", "oldpeak", "st_slope">>

\* the handlers: column_mapping
column_mapping ==
    [chest_pain_type |-> "chest pain type", resting_bp |-> "resting bp s",
     fasting_bs |-> "fasting blood sugar", resting_ecg |-> "resting ecg",
     max_hr |-> "max heart rate", exercise_angina |-> "exercise angina",
     st_slope |-> "ST slope"]

\* patient_df.rename(columns=column_mapping): names outside the mapping stay.
Rename(columns) ==
    [i \in DOMAIN columns |->
        IF columns[i] \in DOMAIN column_mapping THEN column_mapping[columns[i]]
        ELSE columns[i]]

\* The frame the handlers hand to model.predict for a valid patient: one row,
\* the renamed columns, nothing else done to it.  A frame is its list of
\* column names and its rows, each a list of values in column order.
PatientFrame(p) ==
    [columns |-> Rename(PatientFields),
     rows |-> <<[i \in DOMAIN PatientFields |-> RequestBodies[p][PatientFields[i]]]>>]

\* A row of the feature table (the columns "the model expects", in the
\* names the handlers rename to) with a given chest pain type.
FeatureRow(cp) ==
    [i \in DOMAIN PatientFields |->
        IF PatientFields[i] = "chest_pain_type" THEN cp ELSE ExampleBody[PatientFields[i]]]

\* The feature tables given to the preprocessor: up to MaxRows rows of the
\* full schema, and one table that lacks the column "ST slope".
FullTables ==
    {[columns |-> Rename(PatientFields), rows |-> rows] :
        rows \in SeqsUpTo({FeatureRow(1), FeatureRow(3)}, MaxRows) \ {<<>>}}
ShortTable ==
    [columns |-> SubSeq(Rename(PatientFields), 1, Len(PatientFields) - 1),
     rows |-> <<SubSeq(FeatureRow(1), 1, Len(PatientFields) - 1)>>]
Tables == FullTables \cup {ShortTable}

\* apply_onehot_encoding: the default of categorical_cols
DefaultCategorical == <<"chest pain type", "resting ecg", "ST slope">>
\* categorical_cols=None
NoneCols == <<NoneName>>
NoFrame == [columns |-> <<>>, rows |-> <<>>]

\* OneHotEncoder(drop=None, sparse_output=False, handle_unknown='ignore')
\* before fit.
UnfittedEncoder == [kind |-> "OneHotEncoder", fitted |-> FALSE]

\* OneHotEncoder.fit: per column the sorted values observed in it.
EncoderFit(df, cols) ==
    [kind |-> "OneHotEncoder", fitted |-> TRUE, feature_names_in |-> cols,
     categories |->
        [j \in DOMAIN cols |->
            SortedSeq({df.rows[r][ColumnIndex(df.columns, cols[j])] : r \in DOMAIN df.rows})]]

\* Mutant: handle_unknown='error'; for a row with a value outside the fitted
\* categories no row is produced.
MutTransformErrorOnUnknown(enc, df) ==
    [r \in DOMAIN df.rows |->
        IF \E j \in DOMAIN enc.categories :
              df.rows[r][ColumnIndex(df.columns, enc.feature_names_in[j])]
                  \notin Range(enc.categories[j])
        THEN <<>>
        ELSE Flatten([j \in DOMAIN enc.categories |->
                [k \in DOMAIN enc.categories[j] |->
                    IF df.rows[r][ColumnIndex(df.columns, enc.feature_names_in[j])]
                          = enc.categories[j][k] THEN 1 ELSE 0]])]

\* OneHotEncoder.transform with handle_unknown='ignore': per row and column
\* one indicator per fitted category, all 0 for a value not among them.
EncoderTransform(enc, df) ==
    [r \in DOMAIN df.rows |->
        Flatten([j \in DOMAIN enc.categories |->
            [k \in DOMAIN enc.categories[j] |->
                IF df.rows[r][ColumnIndex(df.columns, enc.feature_names_in[j])]
                      = enc.categories[j][k] THEN 1 ELSE 0]])]

\* OneHotEncoder.get_feature_names_out: "<column>_<category>"
GetFeatureNamesOut(enc) ==
    Flatten([j \in DOMAIN enc.categories |->
        [k \in DOMAIN enc.categories[j] |->
            enc.feature_names_in[j] \o "_" \o ToString(enc.categories[j][k])]])

\* The positions of the columns that are not dropped, in order.
RECURSIVE KeptIndices(_, _, _)
KeptIndices(columns, dropped, i) ==
    IF i > Len(columns) THEN <<>>
    ELSE (IF columns[i] \in dropped THEN <<>> ELSE <<i>>)
             \o KeptIndices(columns, dropped, i + 1)

\* pd.concat([df.drop(columns=categorical_cols), encoded_df], axis=1)
EncodedFrame(enc, df, encoded) ==
    LET kept == KeptIndices(df.columns, Range(enc.feature_names_in), 1)
    IN  [columns |-> [i \in DOMAIN kept |-> df.columns[kept[i]]] \o GetFeatureNamesOut(enc),
         rows |-> [r \in DOMAIN df.rows |->
                     [i \in DOMAIN kept |-> df.rows[r][kept[i]]] \o encoded[r]]]

\* Mutants: the encoder is created and fitted only when fit is asked for; it
\* is created and fitted on every call.
MutRefitOnlyOnFit(enc, fit) == fit
MutRefitAlways(enc, fit) == TRUE

\* apply_onehot_encoding: "if fit or self.encoder is None"
Refit(enc, fit) == fit \/ enc = None

\* apply_onehot_encoding on a preprocessor whose encoder is enc: the encoder
\* it leaves, the exception it raises and the frame it returns.  On the
\* fitting path self.encoder is assigned before df[categorical_cols] is
\* evaluated, so a KeyError leaves a new, unfitted encoder behind.  On the
\* other path transform raises NotFittedError for such an encoder, and
\* ValueError when the columns are not the ones of the fit.
ApplyOnehotEncoding(enc, df, categorical_cols, fit) ==
    LET cols == IF categorical_cols = NoneCols THEN DefaultCategorical ELSE categorical_cols
        missing == \E j \in DOMAIN cols : cols[j] \notin Range(df.columns)
        failed(e, exc) == [encoder |-> e, raised |-> exc, out |-> NoFrame]
    IN  IF Refit(enc, fit)
        THEN IF missing THEN failed(UnfittedEncoder, "KeyError")
             ELSE LET fitted == EncoderFit(df, cols)
                  IN  [encoder |-> fitted, raised |-> "none",
                       out |-> EncodedFrame(fitted, df, EncoderTransform(fitted, df))]
        ELSE IF missing THEN failed(enc, "KeyError")
        ELSE IF ~enc.fitted THEN failed(enc, "NotFittedError")
        ELSE IF enc.feature_names_in # cols THEN failed(enc, "ValueError")
        ELSE [encoder |-> enc, raised |-> "none",
              out |-> EncodedFrame(enc, df, EncoderTransform(enc, df))]

\* What an attribute holds: nothing, an object not fitted, a fitted one.
Holding(attr) == IF attr = None THEN "None" ELSE IF attr.fitted THEN "fitted" ELSE "unfitted"

\* A call of apply_onehot_encoding.
Encode(df, categorical_cols, fit) ==
    /\ LET r == ApplyOnehotEncoding(encoder, df, categorical_cols, fit)
       IN  /\ encoder' = r.encoder
           /\ call' = [op |-> "encode", df |-> df, categorical_cols |-> categorical_cols,
                       fit |-> fit, had |-> Holding(encoder), raised |-> r.raised, out |-> r.out]
    /\ UNCHANGED <<scaler, serveVars, evalVars>>

\* The feature matrices given to normalize_features: one column, up to
\* MaxRows rows.
Matrices == SeqsUpTo({1, 3}, MaxRows) \ {<<>>}
\* X_test=None
NoneMatrix == <<0>>
TestMatrices == {NoneMatrix, <<3>>}
Methods == {"standard", "minmax", "robust"}

Sum(X) == LET F[i \in 0..Len(X)] == IF i = 0 THEN 0 ELSE F[i - 1] + X[i] IN F[Len(X)]
SumSq(X) == LET F[i \in 0..Len(X)] == IF i = 0 THEN 0 ELSE F[i - 1] + X[i] * X[i] IN F[Len(X)]
Min(X) == CHOOSE x \in Range(X) : \A y \in Range(X) : x <= y
Max(X) == CHOOSE x \in Range(X) : \A y \in Range(X) : x >= y

\* StandardScaler().fit / MinMaxScaler().fit: the learned parameters, kept as
\* exact fractions: mean_ = sum / n and var_ = var_num / n^2; data_min_ and
\* data_max_.
ScalerFit(method, X) ==
    IF method = "minmax"
    THEN [kind |-> "MinMaxScaler", fitted |-> TRUE, data_min |-> Min(X), data_max |-> Max(X),
          n_samples_seen |-> Len(X)]
    ELSE [kind |-> "StandardScaler", fitted |-> TRUE, sum |-> Sum(X),
          var_num |-> Len(X) * SumSq(X) - Sum(X) * Sum(X), n_samples_seen |-> Len(X)]

\* transform: (x - mean_) / scale_, a fraction num / sqrt(den2), and
\* (x - data_min_) / (data_max_ - data_min_), a fraction num / den; a zero
\* scale is replaced by 1.
ScalerTransform(sc, X) ==
    [i \in DOMAIN X |->
        IF sc.kind = "MinMaxScaler"
        THEN [num |-> X[i] - sc.data_min,
              den |-> IF sc.data_max = sc.data_min THEN 1 ELSE sc.data_max - sc.data_min]
        ELSE [num |-> sc.n_samples_seen * X[i] - sc.sum,
              den2 |-> IF sc.var_num = 0 THEN sc.n_samples_seen * sc.n_samples_seen
                       ELSE sc.var_num]]

\* Mutant: a scaler that is there is fitted further (partial_fit) instead of
\* being replaced.
MutScalerKeepFirst(old, method, X_train) ==
    IF old = None THEN ScalerFit(method, X_train) ELSE old

\* normalize_features: "self.scaler = StandardScaler()" or "MinMaxScaler()"
\* (StandardScaler for an unknown method), then fit_transform(X_train): a new
\* scaler on every call.
NewScaler(old, method, X_train) == ScalerFit(method, X_train)

\* A call of normalize_features.
Scale(X_train, X_test, method) ==
    /\ scaler' = NewScaler(scaler, method, X_train)
    /\ call' = [op |-> "scale", X_train |-> X_train, X_test |-> X_test, method |-> method,
                had |-> Holding(scaler), raised |-> "none",
                out |-> <<ScalerTransform(scaler', X_train),
                          IF X_test = NoneMatrix THEN NoneMatrix
                          ELSE ScalerTransform(scaler', X_test)>>]
    /\ UNCHANGED <<encoder, serveVars, evalVars>>

NextPipe ==
    \/ \E df \in Tables, fit \in BOOLEAN : Encode(df, NoneCols, fit)
    \/ \E X_train \in Matrices, X_test \in TestMatrices, method \in Methods :
          Scale(X_train, X_test, method)

SpecPipe == Init /\ [][NextPipe]_vars

\* ------------------------------------------------- the table functions
\* A list of numbers in ascending order.
RECURSIVE SortValues(_)
SortValues(xs) ==
    IF xs = <<>> THEN <<>>
    ELSE LET i == CHOOSE i \in DOMAIN xs : \A j \in DOMAIN xs : xs[i] <= xs[j]
         IN  <<xs[i]>> \o SortValues(SubSeq(xs, 1, i - 1) \o SubSeq(xs, i + 1, Len(xs)))

\* The values of a column, in row order.
Column(df, c) == [r \in DOMAIN df.rows |-> df.rows[r][ColumnIndex(df.columns, c)]]

\* NaN, the median of no values.  It is neither == 0 nor > 0, and
\* drop_duplicates takes two of them as equal.
NaN == -1

\* Series.median().  The measurements of the tables given to
\* clean_heart_disease_data are held in halves, a whole number v as 2 * v, so
\* that the mean of the two middle values is exact.
Median(xs) ==
    LET sorted == SortValues(xs)
        n == Len(xs)
    IN  IF n = 0 THEN NaN
        ELSE IF n % 2 = 1 THEN sorted[(n + 1) \div 2]
        ELSE (sorted[n \div 2] + sorted[n \div 2 + 1]) \div 2

\* drop_duplicates().reset_index(drop=True): of equal rows the first stays.
RECURSIVE DropDuplicates(_)
DropDuplicates(rows) ==
    IF rows = <<>> THEN <<>>
    ELSE LET front == SubSeq(rows, 1, Len(rows) - 1)
             last == rows[Len(rows)]
         IN  IF last \in Range(front) THEN DropDuplicates(front)
             ELSE Append(DropDuplicates(front), last)

\* "if (df_clean[col] == 0).any(): ... df_clean.loc[df_clean[col] == 0, col] =
\* median of the values > 0"
ReplaceZeros(df, c) ==
    LET values == Column(df, c)
        median == Median(SelectSeq(values, LAMBDA v : v > 0))
        at == ColumnIndex(df.columns, c)
    IN  IF 0 \notin Range(values) THEN df
        ELSE [df EXCEPT !.rows =
                 [r \in DOMAIN df.rows |->
                     IF df.rows[r][at] = 0 THEN [df.rows[r] EXCEPT ![at] = median]
                     ELSE df.rows[r]]]

\* clean_heart_disease_data: duplicates are dropped first, then the zeros of
\* "resting bp s" and of "cholesterol" are replaced.
CleanHeartDiseaseData(df) ==
    ReplaceZeros(ReplaceZeros([df EXCEPT !.rows = DropDuplicates(df.rows)],
                              "resting bp s"), "cholesterol")

\* The raw tables given to clean_heart_disease_data: up to MaxRows rows of
\* resting bp s (0, 1 or 2, in halves), cholesterol (0 or 1) and target.
CleanTables ==
    {[columns |-> <<"resting bp s", "cholesterol", "target">>, rows |-> rows] :
        rows \in SeqsUpTo({<<2 * bp, 2 * chol, t>> : bp \in 0..2, chol \in 0..1, t \in 0..1},
                          MaxRows)}

\* A call of clean_heart_disease_data, on a raw table or on the table the
\* last call returned.
Clean ==
    /\ call.op \in {"table", "clean"}
    /\ call' = [op |-> "clean", df |-> call.out, cleaned |-> call.op = "clean",
                out |-> CleanHeartDiseaseData(call.out)]
    /\ UNCHANGED <<encoder, scaler, serveVars, evalVars>>

InitClean ==
    /\ ServeInit
    /\ encoder = None
    /\ scaler = None
    /\ metrics_history = <<>>
    /\ call \in {[op |-> "table", out |-> t] : t \in CleanTables}

SpecClean == InitClean /\ [][Clean]_vars

\* Series.quantile(q) for q = quarters / 4, times 4: linear interpolation
\* between the two values around position (n - 1) * q of the sorted values.
Quantile4(xs, quarters) ==
    LET sorted == SortValues(xs)
        k == ((Len(xs) - 1) * quarters) \div 4
        r == ((Len(xs) - 1) * quarters) % 4
    IN  IF r = 0 THEN 4 * sorted[k + 1]
        ELSE 4 * sorted[k + 1] + r * (sorted[k + 2] - sorted[k + 1])

\* Mutant: the bounds of every column are computed over the rows of df.
MutBoundsOverOriginal(df, df_clean) == df

\* remove_outliers: the quantiles of a column are taken over df_clean, the
\* rows that are left when its turn comes.
BoundsOver(df, df_clean) == df_clean

\* One round of the iqr loop: Q1, Q3 and the bounds over the rows of bounds,
\* then "df_clean[(df_clean[col] >= lower_bound) & (df_clean[col] <=
\* upper_bound)]".  The threshold is the fraction t.num / t.den; the
\* comparison is made on both sides times 4 * t.den.  Of no rows the
\* quantiles are NaN and nothing is left to keep.
IqrFilter(bounds, df_clean, col, t) ==
    IF bounds.rows = <<>> THEN [df_clean EXCEPT !.rows = <<>>]
    ELSE LET Q1 == Quantile4(Column(bounds, col), 1)
             Q3 == Quantile4(Column(bounds, col), 3)
             lower == t.den * Q1 - t.num * (Q3 - Q1)
             upper == t.den * Q3 + t.num * (Q3 - Q1)
             at == ColumnIndex(df_clean.columns, col)
         IN  [df_clean EXCEPT !.rows =
                 SelectSeq(df_clean.rows,
                           LAMBDA row : /\ 4 * t.den * row[at] >= lower
                                        /\ 4 * t.den * row[at] <= upper)]

\* One round of the zscore loop: "df_clean[z_scores <= threshold]" with
\* z = |x - mean| / std (std with n - 1), compared as squares times the
\* denominators; of fewer than two rows, or of equal values, z is NaN and no
\* row is kept.
ZscoreFilter(df_clean, col, t) ==
    LET xs == Column(df_clean, col)
        n == Len(xs)
        spread == n * SumSq(xs) - Sum(xs) * Sum(xs)
        at == ColumnIndex(df_clean.columns, col)
    IN  IF n < 2 \/ spread = 0 THEN [df_clean EXCEPT !.rows = <<>>]
        ELSE [df_clean EXCEPT !.rows =
                 SelectSeq(df_clean.rows,
                           LAMBDA row :
                               (n * row[at] - Sum(xs)) * (n * row[at] - Sum(xs))
                                   * (n - 1) * t.den * t.den
                                 <= t.num * t.num * n * spread)]

\* "for col in columns" from column i on.
RECURSIVE OutlierLoop(_, _, _, _, _, _)
OutlierLoop(df, df_clean, columns, i, method, t) ==
    IF i > Len(columns) THEN df_clean
    ELSE OutlierLoop(df,
                     IF method = "iqr"
                     THEN IqrFilter(BoundsOver(df, df_clean), df_clean, columns[i], t)
                     ELSE ZscoreFilter(df_clean, columns[i], t),
                     columns, i + 1, method, t)

\* remove_outliers: columns=None stands for every numeric column; a method
\* other than 'iqr' and 'zscore' filters nothing.
RemoveOutliers(df, columns, method, t) ==
    IF method \notin {"iqr", "zscore"} THEN df
    ELSE OutlierLoop(df, df, IF columns = NoneCols THEN df.columns ELSE columns,
                     1, method, t)

\* The tables given to remove_outliers: up to MaxOutlierRows rows of two
\* numeric columns, and the one-column table 1, 2, 2, 3, 3, 3, 4, 4, 100.
OutlierTables ==
    {[columns |-> <<"a", "b">>, rows |-> rows] :
        rows \in SeqsUpTo({<<a, b>> : a \in {1, 9}, b \in {1, 9}}, MaxOutlierRows)}
ExampleColumn ==
    [columns |-> <<"a">>,
     rows |-> <<<<1>>, <<2>>, <<2>>, <<3>>, <<3>>, <<3>>, <<4>>, <<4>>, <<100>>>>]
\* threshold: 1.5, the default, and 3
Thresholds == {[num |-> 3, den |-> 2], [num |-> 3, den |-> 1]}

\* A call of remove_outliers on the table drawn.
Outliers(columns, method, t) ==
    /\ call.op = "table"
    /\ \A c \in Range(columns) : c = NoneName \/ c \in Range(call.out.columns)
    /\ call' = [op |-> "outliers", df |-> call.out, columns |-> columns,
                method |-> method, threshold |-> t,
                out |-> RemoveOutliers(call.out, columns, method, t)]
    /\ UNCHANGED <<encoder, scaler, serveVars, evalVars>>

InitOutliers ==
    /\ ServeInit
    /\ encoder = None
    /\ scaler = None
    /\ metrics_history = <<>>
    /\ call \in {[op |-> "table", out |-> t] : t \in OutlierTables \cup {ExampleColumn}}

NextOutliers ==
    \E columns \in {NoneCols, <<"a">>, <<"a", "b">>, <<"b", "a">>},
       method \in {"iqr", "zscore", "none"}, t \in Thresholds :
        Outliers(columns, method, t)

SpecOutliers == InitOutliers /\ [][NextOutliers]_vars

\* SMOTE(random_state=random_state): k_neighbors is left at its default.
SmoteNeighbors == 5

\* SMOTE.fit_resample on data with counts[c] rows of class c (0 and 1), the
\* sampling strategy left at 'auto': every class but the largest is filled
\* up to the size of the largest with synthetic rows, each made from a row
\* of the class and one of its k_neighbors nearest rows of that class.  It
\* raises ValueError when y has fewer than two classes, and when a class to
\* fill has no more than k_neighbors rows (the neighbour search asks for
\* k_neighbors + 1 rows of it).  The rows given come back in front of the
\* synthetic ones.
SmoteFitResample(counts) ==
    LET most == IF counts[1] >= counts[2] THEN counts[1] ELSE counts[2]
        least == IF counts[1] >= counts[2] THEN counts[2] ELSE counts[1]
    IN  IF counts[1] = 0 \/ counts[2] = 0
        THEN [raised |-> "ValueError", original |-> <<0, 0>>, synthetic |-> <<0, 0>>]
        ELSE IF least < most /\ least <= SmoteNeighbors
        THEN [raised |-> "ValueError", original |-> <<0, 0>>, synthetic |-> <<0, 0>>]
        ELSE [raised |-> "none", original |-> counts,
              synthetic |-> <<most - counts[1], most - counts[2]>>]

\* balance_classes: SMOTE for method 'smote'; for any other method a warning,
\* and the data as they came.
BalanceClasses(counts, method) ==
    IF method = "smote" THEN SmoteFitResample(counts)
    ELSE [raised |-> "none", original |-> counts, synthetic |-> <<0, 0>>]

\* A call of balance_classes on data with the class counts drawn (of a table
\* that has rows).
Balance(method) ==
    /\ call.op = "counts"
    /\ call' = [op |-> "balance", counts |-> call.out, method |-> method,
                out |-> BalanceClasses(call.out, method)]
    /\ UNCHANGED <<encoder, scaler, serveVars, evalVars>>

InitBalance ==
    /\ ServeInit
    /\ encoder = None
    /\ scaler = None
    /\ metrics_history = <<>>
    /\ call \in {[op |-> "counts", out |-> counts] :
                    counts \in ((0..MaxCount) \X (0..MaxCount)) \ {<<0, 0>>}}

NextBalance == \E method \in {"smote", "oversample"} : Balance(method)

SpecBalance == InitBalance /\ [][NextBalance]_vars

\* ------------------------------------------------------------- the trainer
\* src/model_training.py, ModelTrainer.get_model and the loop of
\* train_multiple_models.  A dict is a function from its keys.

\* dict.get(key, default)
Get(d, key, default) == IF key \in DOMAIN d THEN d[key] ELSE default

\* {**a, **b} with the left operand winning (not the code's).
MutMergeLeftWins(a, b) ==
    [k \in DOMAIN a \cup DOMAIN b |-> IF k \in DOMAIN a THEN a[k] ELSE b[k]]

\* {**a, **b}: the keys of both, a key of both with b's value.
Merge(a, b) ==
    [k \in DOMAIN a \cup DOMAIN b |-> IF k \in DOMAIN b THEN b[k] ELSE a[k]]

model_aliases ==
    [random_forest_tuned |-> "random_forest",
     random_forest_optimized |-> "random_forest",
     logistic_regression_tuned |-> "logistic_regression",
     svm_tuned |-> "svm"]

\* The registered algorithms, each with its estimator class.
models_dict ==
    [random_forest |-> "RandomForestClassifier",
     gradient_boosting |-> "GradientBoostingClassifier",
     svm |-> "SVC",
     logistic_regression |-> "LogisticRegression",
     decision_tree |-> "DecisionTreeClassifier",
     naive_bayes |-> "GaussianNB",
     knn |-> "KNeighborsClassifier"]

default_params ==
    [random_forest |-> [n_estimators |-> 100, random_state |-> 42],
     gradient_boosting |-> [n_estimators |-> 100, random_state |-> 42],
     svm |-> [kernel |-> "rbf", probability |-> TRUE, random_state |-> 42],
     logistic_regression |-> [max_iter |-> 1000, random_state |-> 42],
     decision_tree |-> [random_state |-> 42],
     naive_bayes |-> <<>>,
     knn |-> [n_neighbors |-> 5]]

\* The keyword arguments each estimator class takes, of those in use here;
\* a class called with any other keyword raises TypeError.
ConstructorParams ==
    [random_forest |-> {"n_estimators", "random_state", "max_depth"},
     gradient_boosting |-> {"n_estimators", "random_state", "max_depth"},
     svm |-> {"kernel", "probability", "random_state"},
     logistic_regression |-> {"max_iter", "random_state"},
     decision_tree |-> {"random_state", "max_depth"},
     naive_bayes |-> {},
     knn |-> {"n_neighbors"}]

NoEstimator == [class |-> "None"]

\* get_model(model_name, **kwargs): the alias resolved, None for a name that
\* is not registered, else the class built with the merged parameters.
GetModel(model_name, kwargs) ==
    LET resolved_name == Get(model_aliases, model_name, model_name)
        params == Merge(Get(default_params, resolved_name, <<>>), kwargs)
    IN  IF resolved_name \notin DOMAIN models_dict
        THEN [raised |-> "none", out |-> NoEstimator]
        ELSE IF DOMAIN params \subseteq ConstructorParams[resolved_name]
        THEN [raised |-> "none",
              out |-> [class |-> models_dict[resolved_name], params |-> params]]
        ELSE [raised |-> "TypeError", out |-> NoEstimator]

\* train_model(model, ...): model.fit, then the model is stored.  None has
\* no fit.
TrainModel(model) ==
    IF model = NoEstimator THEN [raised |-> "AttributeError", out |-> NoEstimator]
    ELSE [raised |-> "none", out |-> model]

\* One turn of the loop of train_multiple_models: get_model and train_model
\* under one try; any exception is logged and the name is left out of the
\* result.
TrainEntry(model_name, kwargs) ==
    LET got == GetModel(model_name, kwargs)
        trained == TrainModel(got.out)
    IN  IF got.raised # "none" THEN [raised |-> "none", logged |-> got.raised, trained |-> {}]
        ELSE IF trained.raised # "none"
        THEN [raised |-> "none", logged |-> trained.raised, trained |-> {}]
        ELSE [raised |-> "none", logged |-> "none", trained |-> {model_name}]

\* The names asked for: the registered ones, the aliases, and two that are
\* neither.
UnknownNames == {"xgboost", "random_forest_best"}
ModelNames == DOMAIN models_dict \cup DOMAIN model_aliases \cup UnknownNames

\* The caller's overrides: any part of these.
Overrides == [n_estimators |-> 200, random_state |-> 7, max_depth |-> 3]
KwargsSets == {[k \in S |-> Overrides[k]] : S \in SUBSET DOMAIN Overrides}

\* A call of get_model with the overrides drawn.
Instantiate(model_name) ==
    /\ call.op = "kwargs"
    /\ call' = [op |-> "get_model", model_name |-> model_name, kwargs |-> call.out,
                result |-> GetModel(model_name, call.out)]
    /\ UNCHANGED <<encoder, scaler, serveVars, evalVars>>

\* A turn of the training loop with the overrides drawn as the entry's
\* parameters.
TrainOne(model_name) ==
    /\ call.op = "kwargs"
    /\ call' = [op |-> "train", model_name |-> model_name, kwargs |-> call.out,
                result |-> TrainEntry(model_name, call.out)]
    /\ UNCHANGED <<encoder, scaler, serveVars, evalVars>>

InitTrainer ==
    /\ ServeInit
    /\ encoder = None
    /\ scaler = None
    /\ metrics_history = <<>>
    /\ call \in {[op |-> "kwargs", out |-> kw] : kw \in KwargsSets}

NextTrainer ==
    \/ \E model_name \in ModelNames : Instantiate(model_name)
    \/ \E model_name \in ModelNames : TrainOne(model_name)

SpecTrainer == InitTrainer /\ [][NextTrainer]_vars

\* ----------------------------------------------------------- the evaluator
\* src/model_evaluation.py, ModelEvaluator: evaluate_model, compare_models
\* and get_best_model_metrics over metrics_history.  A report is a dict (a
\* function from its keys); the scores are few, so that they tie.  The per-class entries of a report (precision_class_i, ...) follow
\* the same path as the four overall scores and are left out.

\* Python's None as the value of a metric.
NoneValue == -1

Scores == {0, 1}
TopScore == CHOOSE s \in Scores : \A t \in Scores : s >= t
ScoreKeys == {"accuracy", "precision", "recall", "f1_score"}
\* What the four sklearn scores come to for a model's predictions.
ScoreSets == {s \in [ScoreKeys -> Scores] : s["precision"] = s["recall"]
                                           /\ s["recall"] = TopScore}
\* What roc_auc_score does on the probabilities passed: "none" for
\* y_pred_proba = None (not called), "error" for an exception (a single
\* class in y_true), else its value.
ProbaOutcomes == {"none", "error", "value"}
EvalNames == {"a", "b"}
MetricNames == {"accuracy", "f1_score", "roc_auc"}

\* The try around roc_auc_score without its except (not the code's).
MutRocAucUncaught(proba) ==
    IF proba = "error" THEN [raised |-> "ValueError", value |-> NoneValue]
    ELSE [raised |-> "none", value |-> TopScore]

\* try: metrics['roc_auc'] = roc_auc_score(...) except Exception:
\* metrics['roc_auc'] = None
RocAuc(proba) ==
    IF proba = "error" THEN [raised |-> "none", value |-> NoneValue]
    ELSE [raised |-> "none", value |-> TopScore]

\* evaluate_model: the report built, with roc_auc only when probabilities
\* were passed, appended to the history and returned.
EvaluateModel(history, model_name, scores, proba) ==
    LET base == [k \in ScoreKeys \cup {"model_name"} |->
                    IF k = "model_name" THEN model_name ELSE scores[k]]
        roc == RocAuc(proba)
        metrics == IF proba = "none" THEN base
                   ELSE Merge(base, [roc_auc |-> roc.value])
    IN  IF proba # "none" /\ roc.raised # "none"
        THEN [raised |-> roc.raised, out |-> <<>>, history |-> history]
        ELSE [raised |-> "none", out |-> metrics, history |-> Append(history, metrics)]

\* The orders of 1..n.
RECURSIVE Orders(_)
Orders(S) ==
    IF S = {} THEN {<<>>}
    ELSE UNION {{<<x>> \o p : p \in Orders(S \ {x})} : x \in S}

\* compare_models(): None for an empty history, else the frame of the
\* reports sorted by 'accuracy', descending, as the row labels (positions in
\* the history, from 1) in their new order.  sort_values runs with its
\* default kind, quicksort, which is not stable: rows of equal accuracy come
\* in any order.
CompareModels(history) ==
    {p \in Orders(DOMAIN history) :
        \A i \in 1..(Len(p) - 1) :
            history[p[i]]["accuracy"] >= history[p[i + 1]]["accuracy"]}

\* max(history, key): the first element is the candidate, each later one
\* replaces it when its key is greater; None does not compare.
RECURSIVE MaxFrom(_, _, _)
MaxFrom(keys, best, j) ==
    IF j > Len(keys) THEN [raised |-> "none", index |-> best]
    ELSE IF keys[j] = NoneValue \/ keys[best] = NoneValue
    THEN [raised |-> "TypeError", index |-> 0]
    ELSE MaxFrom(keys, IF keys[j] > keys[best] THEN j ELSE best, j + 1)

\* get_best_model_metrics(metric): None for an empty history; else the
\* maximum by x.get(metric, 0), whose value is then formatted into the log
\* line as best_metrics[metric]:.4f.
GetBestModelMetrics(history, metric) ==
    LET keys == [i \in DOMAIN history |-> Get(history[i], metric, 0)]
        found == MaxFrom(keys, 1, 2)
    IN  IF history = <<>> THEN [raised |-> "none", index |-> 0]
        ELSE IF found.raised # "none" THEN found
        ELSE IF metric \notin DOMAIN history[found.index]
        THEN [raised |-> "KeyError", index |-> 0]
        ELSE IF history[found.index][metric] = NoneValue
        THEN [raised |-> "TypeError", index |-> 0]
        ELSE found

Evaluate(model_name, scores, proba) ==
    /\ Len(metrics_history) < MaxHistory
    /\ LET r == EvaluateModel(metrics_history, model_name, scores, proba)
       IN  /\ metrics_history' = r.history
           /\ call' = [op |-> "evaluate", proba |-> proba, raised |-> r.raised,
                       out |-> r.out]
    /\ UNCHANGED <<encoder, scaler, serveVars>>

Compare ==
    /\ metrics_history # <<>>
    /\ \E p \in CompareModels(metrics_history) :
           call' = [op |-> "compare", out |-> p]
    /\ UNCHANGED <<encoder, scaler, serveVars, evalVars>>

Best(metric) ==
    /\ LET r == GetBestModelMetrics(metrics_history, metric)
       IN  call' = [op |-> "best", metric |-> metric, raised |-> r.raised,
                    index |-> r.index]
    /\ UNCHANGED <<encoder, scaler, serveVars, evalVars>>

NextEval ==
    \/ \E model_name \in EvalNames, scores \in ScoreSets, proba \in ProbaOutcomes :
           Evaluate(model_name, scores, proba)
    \/ Compare
    \/ \E metric \in MetricNames : Best(metric)

SpecEval == Init /\ [][NextEval]_vars

\* ------------------------------------------------------------ prepare_data
\* DataPreprocessor.prepare_data: handle_missing_values, remove_outliers,
\* load_data, balance_classes and normalize_features in a row, on a table of
\* one feature column and the target.

TargetCol == "target"
\* remove_outliers' default threshold, 1.5
DefaultThreshold == [num |-> 3, den |-> 2]

\* The tables given to prepare_data: up to MaxOutlierRows rows of a feature
\* and a class label, no value missing.
PrepareTables ==
    {[columns |-> <<"a", TargetCol>>, rows |-> rows] :
        rows \in SeqsUpTo({<<a, y>> : a \in {1, 9}, y \in {0, 1}}, MaxOutlierRows)}

\* handle_missing_values: a table without missing values is returned as it
\* came.
HandleMissingValues(df) == df

\* load_data: X = df.drop(columns=[target_col]), y = df[target_col]
LoadData(df, target_col) ==
    LET at == ColumnIndex(df.columns, target_col)
        keep == SelectSeq([i \in DOMAIN df.columns |-> i], LAMBDA i : i # at)
    IN  [X |-> [columns |-> [j \in DOMAIN keep |-> df.columns[keep[j]]],
                rows |-> [r \in DOMAIN df.rows |->
                             [j \in DOMAIN keep |-> df.rows[r][keep[j]]]]],
         y |-> Column(df, target_col)]

\* y.value_counts() of the two classes
ValueCounts(y) ==
    <<Len(SelectSeq(y, LAMBDA v : v = 0)), Len(SelectSeq(y, LAMBDA v : v = 1))>>

UnfittedScaler == [kind |-> "StandardScaler", fitted |-> FALSE]

\* The stages of prepare_data after the missing values.  kept is df_clean as
\* load_data gets it; synthetic counts the rows SMOTE adds per class; of no
\* rows StandardScaler.fit_transform raises ValueError, after the new scaler
\* has been assigned.
PrepareData(old, df, normalize, balance, remove_outliers) ==
    LET df_missing == HandleMissingValues(df)
        df_clean == IF remove_outliers
                    THEN RemoveOutliers(df_missing, NoneCols, "iqr", DefaultThreshold)
                    ELSE df_missing
        Xy == LoadData(df_clean, TargetCol)
        balanced == IF balance THEN BalanceClasses(ValueCounts(Xy.y), "smote")
                    ELSE [raised |-> "none", original |-> ValueCounts(Xy.y),
                          synthetic |-> <<0, 0>>]
        feature == Column(Xy.X, Xy.X.columns[1])
    IN  IF balanced.raised # "none"
        THEN [raised |-> balanced.raised, kept |-> df_clean, scaler |-> old,
              X |-> <<>>, y |-> <<>>, synthetic |-> <<0, 0>>]
        ELSE IF ~normalize
        THEN [raised |-> "none", kept |-> df_clean, scaler |-> old,
              X |-> feature, y |-> Xy.y, synthetic |-> balanced.synthetic]
        ELSE IF feature = <<>>
        THEN [raised |-> "ValueError", kept |-> df_clean, scaler |-> UnfittedScaler,
              X |-> <<>>, y |-> <<>>, synthetic |-> <<0, 0>>]
        ELSE [raised |-> "none", kept |-> df_clean,
              scaler |-> NewScaler(old, "standard", feature),
              X |-> ScalerTransform(NewScaler(old, "standard", feature), feature),
              y |-> Xy.y, synthetic |-> balanced.synthetic]

\* A call of prepare_data on the table drawn.
Prepare(normalize, balance, remove_outliers) ==
    /\ call.op = "table"
    /\ LET r == PrepareData(scaler, call.out, normalize, balance, remove_outliers)
       IN  /\ scaler' = r.scaler
           /\ call' = [op |-> "prepare", df |-> call.out, normalize |-> normalize,
                       balance |-> balance, remove_outliers |-> remove_outliers,
                       raised |-> r.raised, kept |-> r.kept, X |-> r.X, y |-> r.y,
                       synthetic |-> r.synthetic]
    /\ UNCHANGED <<encoder, serveVars, evalVars>>

InitPrepare ==
    /\ ServeInit
    /\ encoder = None
    /\ scaler = None
    /\ metrics_history = <<>>
    /\ call \in {[op |-> "table", out |-> t] : t \in PrepareTables}

NextPrepare ==
    \E normalize \in BOOLEAN, balance \in BOOLEAN, remove_outliers \in BOOLEAN :
        Prepare(normalize, balance, remove_outliers)

SpecPrepare == InitPrepare /\ [][NextPrepare]_vars

\* ----------------------------------------------------------- /ingest/stream
\* api/main.py, ingest_stream_data: the record is inserted into raw_data and
\* put into the object store as the request's flags ask, inside one try
\* whose except turns any exception into status 500.

\* What the object store does on get_s3_client() and put_object.
S3Outcomes == {"ok", "client_raises", "put_raises"}

\* DatabaseClient.insert_raw_data: the INSERT into heart_disease.raw_data
\* through execute_insert, whose boolean it returns.
InsertRawData(o) == ExecuteInsert(o)

\* IngestDataRequest: the record of a patient and the two flags.
IngestRequests ==
    [data : Patients, save_to_db : BOOLEAN, save_to_s3 : BOOLEAN]

\* ingest_stream_data(request) with the outcomes db and s3 of the two
\* stores: inserted and stored tell what was committed to raw_data and
\* written to the bucket.  The value of insert_raw_data is not read.
IngestStreamData(request, db, s3) ==
    LET dbRaises == request.save_to_db /\ db = "client_raises"
        inserted == request.save_to_db /\ ~dbRaises /\ InsertRawData(db).value
        s3Raises == request.save_to_s3 /\ ~dbRaises /\ s3 # "ok"
        stored == request.save_to_s3 /\ ~dbRaises /\ s3 = "ok"
    IN  IF dbRaises \/ s3Raises
        THEN [inserted |-> inserted, stored |-> stored, status_code |-> ErrorStatus,
              body |-> [status |-> "error", saved_to_db |-> FALSE, saved_to_s3 |-> FALSE]]
        ELSE [inserted |-> inserted, stored |-> stored, status_code |-> 200,
              body |-> [status |-> "success", saved_to_db |-> request.save_to_db,
                        saved_to_s3 |-> request.save_to_s3]]

\* A request to /ingest/stream, from the call to the response.
Ingest(db, s3) ==
    /\ call.op = "request"
    /\ call' = [op |-> "ingest", request |-> call.out, db |-> db, s3 |-> s3,
                result |-> IngestStreamData(call.out, db, s3)]
    /\ UNCHANGED <<encoder, scaler, serveVars, evalVars>>

InitIngest ==
    /\ ServeInit
    /\ encoder = None
    /\ scaler = None
    /\ metrics_history = <<>>
    /\ call \in {[op |-> "request", out |-> r] : r \in IngestRequests}

NextIngest == \E db \in DbOutcomes, s3 \in S3Outcomes : Ingest(db, s3)

SpecIngest == InitIngest /\ [][NextIngest]_vars

\* ----------------------------------------------------------------- claims

\* C1: a registry load is issued exactly when the cache is empty or the
\* resolved name differs from the cached name; otherwise the cached model is
\* returned without a load, so a call that follows a successful call for the
\* same resolved name issues no load.
C1_LoadOnlyOnMiss ==
    [][(LoopFree /\ cur'.pc \in {"loading", "scoring"}) =>
        LET resolved == IF cur'.name = NoneName THEN DEFAULT_MODEL ELSE cur'.name
            previous == IF cur.name = NoneName THEN DEFAULT_MODEL ELSE cur.name
        IN  /\ (cur'.pc = "loading") <=> (cachedModel = NoModel \/ cachedName # resolved)
            /\ (cur'.pc = "scoring") => (cur'.hit /\ cur'.model = cachedModel)
            /\ (cur.pc = "done" /\ cur.status = 200 /\ previous = resolved)
                   => cur'.pc = "scoring"]_vars

\* A call served from the cache, without a load.
C1_Witness == cur.pc = "done" /\ cur.status = 200 /\ cur.hit

\* C2: a load the registry cannot supply leaves _cached_model and
\* _cached_model_name as they were, and the next request for the cached name
\* is served from the cache without a load.
C2_FailedLoadKeepsCache ==
    [][/\ (cur.pc = "loading" /\ cur'.raised = ModelNotFound)
           => (cachedModel' = cachedModel /\ cachedName' = cachedName)
       /\ (/\ cur.pc = "done" /\ cur.raised = ModelNotFound
           /\ cachedModel # NoModel
           /\ cur'.pc \in {"loading", "scoring"}
           /\ (IF cur'.name = NoneName THEN DEFAULT_MODEL ELSE cur'.name) = cachedName)
           => (cur'.pc = "scoring" /\ cur'.model = cachedModel)]_vars

\* A not-found failure while another model is cached.
C2_Witness ==
    /\ cur.pc = "done"
    /\ cur.raised = ModelNotFound
    /\ cachedModel # NoModel
    /\ cachedName # (IF cur.name = NoneName THEN DEFAULT_MODEL ELSE cur.name)

\* C3: a request for a model the registry does not have fails with the
\* not-found failure of load_model (status 404).
C3_NotFoundReachesCaller ==
    (cur.pc = "done" /\ cur.raised = ModelNotFound) => cur.status = cur.raised.status_code

\* C4: the cache entry of a name is replaced only by a load for a different
\* name, whatever the registry holds; a request resolving to the cached name
\* is scored by the cached model.
C4_CachedModelIsSticky ==
    [][/\ (cachedModel # NoModel /\ cachedModel' # cachedModel)
           => /\ cur.pc = "loading"
              /\ (IF cur.name = NoneName THEN DEFAULT_MODEL ELSE cur.name) # cachedName
              /\ cachedName' = (IF cur.name = NoneName THEN DEFAULT_MODEL ELSE cur.name)
       /\ (/\ LoopFree /\ cur'.pc \in {"loading", "scoring"}
           /\ cachedModel # NoModel
           /\ (IF cur'.name = NoneName THEN DEFAULT_MODEL ELSE cur'.name) = cachedName)
           => cur'.model = cachedModel
       /\ (cur.pc = "scoring" /\ cur'.status = 200)
           => /\ cur.model = cachedModel
              /\ \A i \in 1..Len(cur'.predictions) :
                    cur'.predictions[i].prediction = ModelPredict(cachedModel, cur.patients[i])]_vars

\* A response computed by a cached version older than the registry's latest.
C4_Witness ==
    /\ cur.pc = "done" /\ cur.status = 200 /\ cur.hit
    /\ cur.model.version < registry[cur.model.name]

\* C5: while one request's load is in progress, a request naming the cached
\* model can be served.
C5_LoadBlocksOnlyItsRequest ==
    (cur.pc = "loading" /\ cachedModel # NoModel /\ Len(tasks) < MaxTasks)
        => ENABLED (\E p \in Patients : Begin("predict", cachedName, <<p>>))

\* C6: a predict call that answers hands exactly one persistence task to the
\* workers, holding its patient, the computed label and probability and the
\* reported model name; a predict call that fails hands over none.
C6_OneTaskPerAnsweredPredict ==
    [][(cur.kind = "predict" /\ cur.pc \in {"loading", "scoring"} /\ cur'.pc = "done") =>
        IF cur'.status = 200
        THEN /\ Len(cur'.background) = 1
             /\ tasks' = Append(tasks,
                    [patient |-> cur.patients[1],
                     prediction |-> ModelPredict(cur.model, cur.patients[1]),
                     probability |-> cur'.predictions[1].probability,
                     model_name |-> cur'.predictions[1].model_name])
             /\ cur'.predictions[1].prediction = ModelPredict(cur.model, cur.patients[1])
        ELSE cur'.background = <<>> /\ tasks' = tasks]_vars

\* An answered predict call whose task waits for a worker.
C6_Witness ==
    /\ cur.pc = "done" /\ cur.kind = "predict" /\ cur.status = 200
    /\ Len(tasks) = 1
    /\ tasks[1].patient = cur.patients[1]

\* C7: a run of the persistence task returns normally whatever the database
\* does, and leaves the response of the request as it was.
C7_SaveNeverRaises ==
    [][(Len(tasks') < Len(tasks)) => (lastSave'.result = "returned" /\ cur' = cur)]_vars

\* A run whose database write failed, after an answered predict call.
C7_Witness ==
    /\ lastSave.failed /\ ~lastSave.written /\ lastSave.result = "returned"
    /\ cur.pc = "done" /\ cur.kind = "predict" /\ cur.status = 200

\* C8: an answered predict_batch returns one result per record, the i-th
\* being the prediction for the i-th record, total being their number, all
\* with one model_name.
C8_BatchOrderPreserved ==
    (cur.pc = "done" /\ cur.kind = "batch" /\ cur.status = 200) =>
        /\ Len(cur.predictions) = Len(cur.patients)
        /\ cur.total = Len(cur.patients)
        /\ \A i \in 1..Len(cur.patients) :
              /\ cur.predictions[i].prediction = ModelPredict(cur.model, cur.patients[i])
              /\ cur.predictions[i].probability = Probability(cur.model, cur.patients[i])
        /\ \A i, j \in 1..Len(cur.predictions) :
              cur.predictions[i].model_name = cur.predictions[j].model_name

\* An answered batch of two different patients, whose labels differ.
C8_Witness ==
    /\ cur.pc = "done" /\ cur.kind = "batch" /\ cur.status = 200
    /\ Len(cur.patients) = 2
    /\ cur.predictions[1].prediction # cur.predictions[2].prediction

\* C9: when model.predict raises on one record of a batch, the results of
\* the other records are returned.
C9_BatchSurvivesRecordFailure ==
    (/\ cur.pc = "done" /\ cur.kind = "batch" /\ cur.raised = PredictError
     /\ Len(cur.patients) >= 2) =>
        (cur.status = 200 /\ Len(cur.predictions) >= Len(cur.patients) - 1)

\* C10: an omitted model_name loads the default model, and every answer
\* reports the name under which its model was loaded and is cached.
C10_ReportedNameIsCachedName ==
    (cur.pc = "done" /\ cur.status = 200) =>
        /\ (cur.name = NoneName) => (cur.model.name = DEFAULT_MODEL)
        /\ cur.model = cachedModel
        /\ cur.model.name = cachedName
        /\ \A i \in 1..Len(cur.predictions) :
              cur.predictions[i].model_name = cachedName

\* An answer to a request without model_name.
C10_Witness ==
    /\ cur.pc = "done" /\ cur.status = 200 /\ cur.name = NoneName
    /\ Len(cur.predictions) > 0

\* The patient objects with a field missing or outside its declared bounds.
C11_OutOfBounds ==
    {p \in DOMAIN RequestBodies :
        LET b == RequestBodies[p]
        IN  ~(/\ DOMAIN b = {"age", "sex", "chest_pain_type", "resting_bp",
                             "cholesterol", "fasting_bs", "resting_ecg", "max_hr",
                             "exercise_angina", "oldpeak", "st_slope"}
              /\ b.age \in 18..100 /\ b.sex \in 0..1
              /\ b.chest_pain_type \in 1..4 /\ b.resting_bp \in 60..260
              /\ b.cholesterol \in 70..900 /\ b.fasting_bs \in 0..1
              /\ b.resting_ecg \in 0..2 /\ b.max_hr \in 30..260
              /\ b.exercise_angina \in 0..1 /\ b.oldpeak \in -3..7
              /\ b.st_slope \in 0..3)}

\* C11: a request carrying a patient object with a field missing or outside
\* its declared bounds is answered before load_model, the scoring of any
\* record or the scheduling of a persistence task runs for it; in a batch one
\* such object rejects the whole request.
C11_InvalidRejectedFirst ==
    [][(/\ LoopFree /\ cur' # cur
        /\ \E i \in 1..Len(cur'.patients) : cur'.patients[i] \in C11_OutOfBounds)
       => /\ cur'.pc = "done" /\ cur'.status = 422
          /\ ~cur'.hit /\ cur'.model = NoModel
          /\ cur'.predictions = <<>> /\ cur'.background = <<>>
          /\ UNCHANGED <<registry, cachedModel, cachedName, tasks, lastSave>>]_vars

\* A rejected batch whose first object is valid and whose second is not,
\* while a model is cached.
C11_Witness ==
    /\ cur.pc = "done" /\ cur.status = 422 /\ cur.kind = "batch"
    /\ Len(cur.patients) = 2
    /\ cur.patients[1] \in Patients /\ cur.patients[2] \notin Patients
    /\ cachedModel # NoModel

C12_InferenceColumnsAsEncoded ==
    (call.op = "encode" /\ call.raised = "none" /\ encoder.fitted) =>
        \A p \in Patients : PatientFrame(p).columns = call.out.columns

C16_SecondFitOverwrites ==
    [][(call'.op = "scale" /\ scaler # None) =>
        LET B == call'.X_train
        IN  /\ scaler'.n_samples_seen = Len(B)
            /\ (call'.method = "minmax") =>
                   /\ scaler'.kind = "MinMaxScaler"
                   /\ scaler'.data_min = Min(B) /\ scaler'.data_max = Max(B)
            /\ (call'.method # "minmax") =>
                   /\ scaler'.kind = "StandardScaler"
                   /\ scaler'.sum = Sum(B)
                   /\ scaler'.var_num = Len(B) * SumSq(B) - Sum(B) * Sum(B)]_vars

\* A second call, on a matrix of one row, of a preprocessor that had a scaler.
C16_Witness ==
    /\ call.op = "scale" /\ call.had = "fitted"
    /\ Len(call.X_train) = 1 /\ scaler.n_samples_seen = 1

\* C17: with an encoder fitted on a table A, apply_onehot_encoding with
\* fit=False on a table with a category value not seen in A does not raise,
\* gives 0 in every indicator column of that column in that row, and returns
\* the column list of the fit.
C17_UnseenCategoryAllZero ==
    [][(/\ call'.op = "encode" /\ ~call'.fit /\ encoder.fitted
        /\ Range(DefaultCategorical) \subseteq Range(call'.df.columns)) =>
        LET df == call'.df
            out == call'.out
            plain == SelectSeq(df.columns, LAMBDA c : c \notin Range(DefaultCategorical))
        IN  /\ call'.raised = "none"
            /\ out.columns = plain \o GetFeatureNamesOut(encoder)
            /\ \A r \in DOMAIN df.rows, j \in DOMAIN DefaultCategorical :
                  LET v == df.rows[r][ColumnIndex(df.columns, DefaultCategorical[j])]
                  IN  v \notin Range(encoder.categories[j]) =>
                        /\ Len(out.rows[r]) = Len(out.columns)
                        /\ \A k \in DOMAIN encoder.categories[j] :
                              out.rows[r][ColumnIndex(out.columns,
                                  DefaultCategorical[j] \o "_" \o ToString(encoder.categories[j][k]))] = 0]_vars

\* A table with a chest pain type the encoder was not fitted on, transformed.
C17_Witness ==
    /\ call.op = "encode" /\ ~call.fit /\ call.had = "fitted" /\ call.raised = "none"
    /\ \E r \in DOMAIN call.df.rows :
          call.df.rows[r][ColumnIndex(call.df.columns, "chest pain type")]
              \notin Range(encoder.categories[1])

\* C18: clean_heart_disease_data is idempotent: applied to a table it
\* returned, it returns that table, replacing no zero and dropping no row.
C18_CleanIdempotent ==
    (call.op = "clean" /\ call.cleaned) => call.out = call.df

\* C19: remove_outliers with method iqr filters column by column in the
\* order given: for each column Q1, Q3 and the bounds [Q1 - t * IQR,
\* Q3 + t * IQR] are those of the rows left by the columns before it, and
\* exactly the rows within the bounds are kept; of the one column
\* 1, 2, 2, 3, 3, 3, 4, 4, 100 with t = 1.5 only the row 100 is removed.
C19_IqrColumnByColumn ==
    (call.op = "outliers" /\ call.method = "iqr") =>
        LET t == call.threshold
            columns == IF call.columns = NoneCols THEN call.df.columns ELSE call.columns
            Within(rows, at, x) ==
                \/ rows = <<>>
                \/ LET xs == [r \in DOMAIN rows |-> rows[r][at]]
                       Q1 == Quantile4(xs, 1)
                       Q3 == Quantile4(xs, 3)
                   IN  /\ 4 * t.den * x >= t.den * Q1 - t.num * (Q3 - Q1)
                       /\ 4 * t.den * x <= t.den * Q3 + t.num * (Q3 - Q1)
            Kept(rows, at) == SelectSeq(rows, LAMBDA row : Within(rows, at, row[at]))
            first == Kept(call.df.rows, ColumnIndex(call.df.columns, columns[1]))
        IN  /\ call.out.columns = call.df.columns
            /\ Len(columns) = 1 => call.out.rows = first
            /\ Len(columns) = 2 =>
                   call.out.rows = Kept(first, ColumnIndex(call.df.columns, columns[2]))
            /\ (call.df = ExampleColumn /\ t = [num |-> 3, den |-> 2]) =>
                   call.out.rows = <<<<1>>, <<2>>, <<2>>, <<3>>, <<3>>, <<3>>, <<4>>, <<4>>>>

\* A table of which filtering column a, then column b, leaves rows that
\* column b alone would have removed.
C19_Witness ==
    /\ call.op = "outliers" /\ call.method = "iqr" /\ call.columns = <<"a", "b">>
    /\ Len(call.out.rows) < Len(call.df.rows)
    /\ call.out # RemoveOutliers(call.df, <<"b", "a">>, "iqr", call.threshold)

\* C20: balance_classes (SMOTE) returns equal class counts for any class
\* counts (a, b), small minorities and a = 0 included: max(a, b) rows of
\* each class, the rows given among them.
C20_BalanceEqualizes ==
    (call.op = "balance" /\ call.method = "smote") =>
        LET a == call.counts[1]
            b == call.counts[2]
            most == IF a >= b THEN a ELSE b
        IN  /\ call.out.raised = "none"
            /\ call.out.original = call.counts
            /\ call.out.original[1] + call.out.synthetic[1] = most
            /\ call.out.original[2] + call.out.synthetic[2] = most
\* C21 (as stated): get_model with a name that is neither registered nor an
\* alias raises UnknownAlgorithmError at the call; it does not return None.
C21_UnknownNameRaises ==
    (call.op = "get_model" /\ call.model_name \in UnknownNames)
        => (call.result.raised = "UnknownAlgorithmError"
            /\ call.result.out # NoEstimator)

\* C22: a model that get_model builds is of the class of the alias's base
\* algorithm, and its parameters are the base's defaults merged with the
\* caller's overrides: every overridden key with the caller's value, every
\* other default key with its default, and no further key.
C22_DefaultsMergedWithOverrides ==
    (call.op = "get_model" /\ call.result.out # NoEstimator) =>
        LET base == IF call.model_name \in DOMAIN model_aliases
                    THEN model_aliases[call.model_name] ELSE call.model_name
            params == call.result.out.params
        IN  /\ call.result.out.class = models_dict[base]
            /\ DOMAIN params = DOMAIN default_params[base] \cup DOMAIN call.kwargs
            /\ \A k \in DOMAIN call.kwargs : params[k] = call.kwargs[k]
            /\ \A k \in DOMAIN default_params[base] \ DOMAIN call.kwargs :
                   params[k] = default_params[base][k]

\* An alias built with one default overridden and one kept.
C22_Witness ==
    /\ call.op = "get_model"
    /\ call.model_name = "random_forest_tuned"
    /\ call.result.out # NoEstimator
    /\ call.result.out.params = [n_estimators |-> 200, random_state |-> 42]

\* C23 (as stated): compare_models returns all the reports in descending
\* order of the metric chosen, whichever metric that is, and reports of equal
\* value in their order of insertion.
C23_RankAnyMetricStable ==
    call.op = "compare" =>
        /\ Range(call.out) = DOMAIN metrics_history
        /\ \A metric \in {"accuracy", "f1_score"} :
             \A i, j \in DOMAIN call.out :
                i < j =>
                    LET a == metrics_history[call.out[i]][metric]
                        b == metrics_history[call.out[j]][metric]
                    IN  a > b \/ (a = b /\ call.out[i] < call.out[j])

\* C24 (as stated): on a history with reports, get_best_model_metrics returns
\* a report whose value of the metric is maximal, the earliest inserted of
\* those tied for the maximum, and that report is the first row of
\* compare_models for the same metric.
C24_BestIsFirstOfRank ==
    (call.op = "best" /\ call.metric \in {"accuracy", "f1_score"}
        /\ metrics_history # <<>>) =>
        /\ call.raised = "none"
        /\ call.index \in DOMAIN metrics_history
        /\ \A i \in DOMAIN metrics_history :
              \/ metrics_history[i][call.metric] < metrics_history[call.index][call.metric]
              \/ /\ metrics_history[i][call.metric] = metrics_history[call.index][call.metric]
                 /\ call.index <= i
        /\ \A p \in CompareModels(metrics_history) :
              metrics_history[p[1]] = metrics_history[call.index]

\* C25: every call of evaluate_model returns its report and appends exactly
\* that report at the end of the history, and nothing else changes the
\* history; the report has the four overall scores, and when roc_auc_score
\* raised it has roc_auc = None.
C25_RocErrorSoftFails ==
    [][IF call'.op = "evaluate"
       THEN /\ call'.raised = "none"
            /\ metrics_history' = Append(metrics_history, call'.out)
            /\ ScoreKeys \cup {"model_name"} \subseteq DOMAIN call'.out
            /\ \A k \in ScoreKeys : call'.out[k] \in Scores
            /\ call'.proba = "error" =>
                  /\ "roc_auc" \in DOMAIN call'.out
                  /\ call'.out["roc_auc"] = NoneValue
       ELSE metrics_history' = metrics_history]_vars

\* A second evaluation whose roc_auc_score raised, its report last in the
\* history.
C25_Witness ==
    /\ call.op = "evaluate"
    /\ call.proba = "error"
    /\ call.raised = "none"
    /\ Len(metrics_history) = 2
    /\ metrics_history[2] = call.out
    /\ call.out["roc_auc"] = NoneValue

\* C30 (as stated): on a history with reports, get_best_model_metrics returns
\* one of them without raising, for every metric name, also when reports hold
\* None for the metric or lack its key.
C30_BestNeverRaises ==
    (call.op = "best" /\ metrics_history # <<>>) =>
        /\ call.raised = "none"
        /\ call.index \in DOMAIN metrics_history

\* C26 (as stated): after a call of apply_onehot_encoding with fit=True or
\* of normalize_features that raises, an encoder or scaler that was fitted
\* before the call is still the one in place.
C26_FailedCallLeavesState ==
    [][((call'.op = "encode" /\ call'.fit) \/ call'.op = "scale")
          /\ call'.raised # "none"
       => /\ encoder.fitted => encoder' = encoder
          /\ scaler.fitted => scaler' = scaler]_vars

\* C27 (as stated): prepare_data with remove_outliers drops rows for the
\* values of feature columns only: the rows kept are those the filter over
\* the feature columns keeps, and every class of the rows so kept is still
\* there.
C27_OutliersOnFeaturesOnly ==
    (call.op = "prepare" /\ call.remove_outliers) =>
        LET features == SelectSeq(call.df.columns, LAMBDA c : c # TargetCol)
        IN  call.kept = RemoveOutliers(call.df, features, "iqr", DefaultThreshold)

\* C28: no step of a predict_batch request, answered or failed, schedules a
\* persistence task or writes to the store, while an answered predict request
\* schedules the task of its record, which a worker writes when the database
\* takes the insert.
C28_BatchSchedulesNothing ==
    [][/\ (cur' # cur /\ cur'.kind = "batch") =>
             /\ tasks' = tasks
             /\ cur'.background = <<>>
             /\ lastSave' = lastSave
       /\ (cur' # cur /\ cur'.kind = "predict" /\ cur'.pc = "done"
             /\ cur'.status = 200) =>
             /\ Len(tasks') = Len(tasks) + 1
             /\ tasks'[Len(tasks')].patient = cur.patients[1]
       /\ (tasks' # tasks /\ cur' = cur) =>
             lastSave'.written = ~lastSave'.failed]_vars

\* A batch of two records answered, and nothing scheduled or written.
C28_Witness ==
    /\ cur.kind = "batch" /\ cur.pc = "done" /\ cur.status = 200
    /\ Len(cur.patients) = 2 /\ cur.total = 2
    /\ cur.background = <<>>
    /\ tasks = <<>>
    /\ ~lastSave.written

\* C29 (as stated): /ingest/stream answers status "success" with
\* saved_to_db = true only if the raw_data row was inserted and committed.
C29_SuccessOnlyIfInserted ==
    (call.op = "ingest" /\ call.result.body.status = "success"
        /\ call.result.body.saved_to_db) => call.result.inserted

====
